---------------------------- MODULE Spec2Model ----------------------------
(***************************************************************************)
(* Model of the conversation orchestrator of the reverse Turing test       *)
(* (backend/src/conversation.ts with the agents and the response gateway). *)
(*                                                                         *)
(* A text is a sequence of tokens; the empty text is << >> (the only falsy *)
(* string of the source).  An optional value is << >> (null / undefined)   *)
(* or <<v>>.  An async operation is split where it awaits the gateway: the *)
(* code up to the await is one action that leaves the call in `pending`,   *)
(* and the code after the await is the action that takes the gateway's     *)
(* answer (a text, or a thrown error).                                     *)
(***************************************************************************)
EXTENDS Integers, Sequences, FiniteSets, TLC

VARIABLES
    conversations,  \* the registry: id -> Conversation
    history,        \* the history file: sequence of Conversation snapshots
    pending,        \* slot -> the call awaiting generateResponse (or NoCall)
    clock,          \* Date.now(), as a logical clock
    script          \* where the run stands in "create, start, advance^k"

vars == <<conversations, history, pending, clock, script>>

-----------------------------------------------------------------------------
(* Bounds of the model *)

MaxInFlight == 2
MaxRestartLen == 2
MaxMem == 8
MaxClock == 1
ConfidenceMargin == 3
TurnLimitMargin == 2
MaxApiLen == 6

(* Program constants *)

MinTurnLimit == 3
MaxTurnLimit == 30
MaxConfidence == 100
DefaultConfidence == 50

ConvIds == {"c1"}
UnknownId == "missing"
AllIds == ConvIds \cup {UnknownId}
Slots == 1..MaxInFlight
TurnLimits == {MinTurnLimit}
HumanRoles == {"none", "interrogator", "convincer"}

None == << >>
Some(v) == <<v>>

-----------------------------------------------------------------------------
(* Texts *)

SystemPromptI == <<"SYS_I">>
SystemPromptC == <<"SYS_C">>
analysisPrompt == <<"ANALYSIS_PROMPT">>
verdictPrompt == <<"VERDICT_PROMPT">>

\* What the gateway can answer to a respond request.
ConvincerReplies == { << >>, <<"c">> }
InterrogatorReplies == { <<"q">>, <<"q", "_", "[ANALYSIS]", "_", "{", "s70", "}">> }
HumanContents == { <<"h">> }

\* leading and trailing whitespace removed (String.prototype.trim)
RECURSIVE TrimLeft(_)
TrimLeft(s) ==
    IF s # << >> /\ Head(s) = "_" THEN TrimLeft(Tail(s)) ELSE s

RECURSIVE TrimRight(_)
TrimRight(s) ==
    IF s # << >> /\ s[Len(s)] = "_" THEN TrimRight(SubSeq(s, 1, Len(s) - 1)) ELSE s

trim(s) == TrimRight(TrimLeft(s))

\* A field of the parsed object: absent (None), a number n (Some(n)), the JSON
\* null, or a string that is no numeral.
JsonNull == <<"null", "null">>
JsonString(text) == <<"string", text>>
IsNumber(v) == Len(v) = 1

\* The body tokens that are valid JSON and the object each stands for:
\* {"thought": "t", "suspicion": 70}, the same with suspicion 150, with
\* suspicion "high", and {}.  Any other body makes JSON.parse throw.
JsonBodies == {"s70", "s150", "sHigh", "empty"}

AnalysisObject(body) ==
    IF body = "s70" THEN [thought |-> Some("t"), suspicion |-> Some(70)]
    ELSE IF body = "s150" THEN [thought |-> Some("t"), suspicion |-> Some(150)]
    ELSE IF body = "sHigh" THEN [thought |-> Some("t"), suspicion |-> JsonString("high")]
    ELSE [thought |-> None, suspicion |-> None]

parseAnalysisJson(group) ==
    IF Len(group) = 3 /\ group[1] = "{" /\ group[3] = "}" /\ group[2] \in JsonBodies
    THEN Some(AnalysisObject(group[2]))
    ELSE None

\* rawResponse.match(/\[ANALYSIS\]\s*(\{.*\})/s): the positions (i, j, k) of a
\* marker, the "{" after optional whitespace, and a later "}".
AnalysisMatches(raw) ==
    { m \in (1..Len(raw)) \X (1..Len(raw)) \X (1..Len(raw)) :
        /\ raw[m[1]] = "[ANALYSIS]"
        /\ m[1] < m[2] /\ m[2] < m[3]
        /\ \A x \in (m[1] + 1)..(m[2] - 1) : raw[x] = "_"
        /\ raw[m[2]] = "{"
        /\ raw[m[3]] = "}" }

Min(S) == CHOOSE x \in S : \A y \in S : x <= y
Max(S) == CHOOSE x \in S : \A y \in S : x >= y

\* the leftmost match, its group taken greedily to the last "}"
analysisGroup(raw) ==
    LET ms == AnalysisMatches(raw)
        i == Min({m[1] : m \in ms})
        j == Min({m[2] : m \in {n \in ms : n[1] = i}})
        k == Max({m[3] : m \in {n \in ms : n[1] = i /\ n[2] = j}})
    IN  SubSeq(raw, j, k)

\* rawResponse.replace(/\[ANALYSIS\].*$/s, ''): everything from the first marker on
stripAnalysis(raw) ==
    LET is == {x \in 1..Len(raw) : raw[x] = "[ANALYSIS]"}
    IN  IF is = {} THEN raw ELSE SubSeq(raw, 1, Min(is) - 1)

\* Mutant of parseResponse: when the analysis does not parse the raw text is
\* kept as the response.
parseResponseKeepsRaw(raw) ==
    IF AnalysisMatches(raw) # {} /\ parseAnalysisJson(analysisGroup(raw)) # None
    THEN [response |-> trim(stripAnalysis(raw)),
          analysis |-> parseAnalysisJson(analysisGroup(raw))]
    ELSE [response |-> raw, analysis |-> None]

\* interrogator.ts 122-133: the visible response and the optional analysis
parseResponse(raw) ==
    IF AnalysisMatches(raw) # {}
    THEN [response |-> trim(stripAnalysis(raw)),
          analysis |-> parseAnalysisJson(analysisGroup(raw))]
    ELSE [response |-> raw, analysis |-> None]

-----------------------------------------------------------------------------
(* Verdict adjudication *)

\* What the gateway can answer to the verdict request: text that is no JSON,
\* or a JSON object with optional fields.
NotJson == [json |-> FALSE, verdict |-> None, confidence |-> None, reasoning |-> None]
JsonVerdict(v, c, r) == [json |-> TRUE, verdict |-> v, confidence |-> c, reasoning |-> r]

VerdictResponses ==
    { NotJson,
      JsonVerdict(Some("human"), Some(83), Some("r")),
      JsonVerdict(Some("robot"), Some(150), None) }

\* Number(v): the number itself, 0 for null, NaN (None) for undefined and for a
\* string that is no numeral.
Number(v) ==
    IF IsNumber(v) THEN v
    ELSE IF v = JsonNull THEN Some(0)
    ELSE None

\* Mutant of clampConfidence: the ceiling Math.min(100, ...) is left out.
clampConfidenceNoCeiling(c) ==
    LET n == IF Number(c) = None \/ Number(c)[1] = 0 THEN DefaultConfidence
             ELSE Number(c)[1]
    IN  IF n < 0 THEN 0 ELSE n

\* Math.min(100, Math.max(0, Number(parsed.confidence) || 50))
clampConfidence(c) ==
    LET n == IF Number(c) = None \/ Number(c)[1] = 0 THEN DefaultConfidence
             ELSE Number(c)[1]
        lo == IF n < 0 THEN 0 ELSE n
    IN  IF lo > MaxConfidence THEN MaxConfidence ELSE lo

\* Mutant of parseVerdict: the catch block answers with the default reasoning
\* of the try block.
parseVerdictSharedDefault(resp) ==
    IF resp.json
    THEN [verdict |-> IF resp.verdict = Some("human") THEN "human" ELSE "ai",
          confidence |-> clampConfidence(resp.confidence),
          reasoning |-> IF resp.reasoning = None THEN "Unable to determine reasoning"
                        ELSE resp.reasoning[1]]
    ELSE [verdict |-> "ai", confidence |-> DefaultConfidence,
          reasoning |-> "Unable to determine reasoning"]

\* interrogator.ts 167-180
parseVerdict(resp) ==
    IF resp.json
    THEN [verdict |-> IF resp.verdict = Some("human") THEN "human" ELSE "ai",
          confidence |-> clampConfidence(resp.confidence),
          reasoning |-> IF resp.reasoning = None THEN "Unable to determine reasoning"
                        ELSE resp.reasoning[1]]
    ELSE [verdict |-> "ai", confidence |-> DefaultConfidence,
          reasoning |-> "Unable to parse verdict response"]

-----------------------------------------------------------------------------
(* Agents *)

ChatMessage(role, content) == [role |-> role, content |-> content]

createInterrogator ==
    [messages |-> <<ChatMessage("system", SystemPromptI)>>, turnCount |-> 0]

createConvincer ==
    [messages |-> <<ChatMessage("system", SystemPromptC)>>, turnCount |-> 0]

\* The context of a call awaiting the gateway: the operation the caller invoked
\* (op), the conversation (id), the function whose code runs when the gateway
\* answers (caller) and the conversation as it was when op was invoked (pre).
NoCtx == [op |-> "none", id |-> "none", caller |-> "none", pre |-> None]

NoCall ==
    [fn |-> "none", newMessages |-> << >>, turnCount |-> 0, request |-> << >>,
     ctx |-> NoCtx]

\* interrogatorRespond up to its await: the copy of the memory with the incoming
\* message appended when it is truthy, and the request with the analysis prompt.
interrogatorRespond(state, incoming, ctx) ==
    LET truthy == incoming # None /\ incoming[1] # << >>
        newMessages == IF truthy
                       THEN Append(state.messages, ChatMessage("user", incoming[1]))
                       ELSE state.messages
        promptMessages == IF truthy
                          THEN Append(state.messages,
                                      ChatMessage("user", incoming[1] \o analysisPrompt))
                          ELSE newMessages
    IN  [fn |-> "interrogatorRespond", newMessages |-> newMessages,
         turnCount |-> state.turnCount, request |-> promptMessages, ctx |-> ctx]

\* convincerRespond up to its await
convincerRespond(state, incoming, ctx) ==
    LET newMessages == Append(state.messages, ChatMessage("user", incoming))
    IN  [fn |-> "convincerRespond", newMessages |-> newMessages,
         turnCount |-> state.turnCount, request |-> newMessages, ctx |-> ctx]

\* interrogatorVerdict up to its await
interrogatorVerdict(state, ctx) ==
    [fn |-> "interrogatorVerdict", newMessages |-> << >>, turnCount |-> state.turnCount,
     request |-> Append(state.messages, ChatMessage("user", verdictPrompt)),
     ctx |-> ctx]

-----------------------------------------------------------------------------
(* Conversations *)

Message(agent, content, thought, suspicion) ==
    [role |-> "assistant", agent |-> agent, content |-> content,
     internalThought |-> thought, suspicionScore |-> suspicion]

\* Mutant of newConversation: the conversation is created active.
newConversationActive(id, config) ==
    [id |-> id, status |-> "active", config |-> config, messages |-> << >>,
     interrogatorState |-> createInterrogator, convincerState |-> createConvincer,
     verdict |-> None, completedAt |-> None]

newConversation(id, config) ==
    [id |-> id, status |-> "idle", config |-> config, messages |-> << >>,
     interrogatorState |-> createInterrogator, convincerState |-> createConvincer,
     verdict |-> None, completedAt |-> None]

Other(agent) == IF agent = "interrogator" THEN "convincer" ELSE "interrogator"

\* Mutant of totalTurns: every message counts as a turn.
totalTurnsPerMessage(conv) == Len(conv.messages)

totalTurns(conv) == Len(conv.messages) \div 2

Last(s) == s[Len(s)]

\* The outcome of the code of an operation up to its first await or its return:
\* the conversation as it leaves it, how it ended ("await", "ok" or the
\* error thrown) and the call it awaits.
Returned(conv, outcome) == [conv |-> conv, outcome |-> outcome, call |-> NoCall]
Awaiting(conv, call) == [conv |-> conv, outcome |-> "await", call |-> call]

\* Mutant of endSync: the conversation is marked completed before the verdict
\* is awaited.
endSyncCompletesEarly(conv, ctx) ==
    LET folded ==
            IF conv.messages # << >> /\ Last(conv.messages).agent = "convincer"
            THEN [conv EXCEPT !.interrogatorState.messages =
                      Append(@, ChatMessage("user", Last(conv.messages).content)),
                              !.status = "completed"]
            ELSE [conv EXCEPT !.status = "completed"]
    IN  Awaiting(folded, interrogatorVerdict(folded.interrogatorState,
                             [ctx EXCEPT !.caller = "endConversation"]))

\* endConversation 280-288
endSync(conv, ctx) ==
    LET folded ==
            IF conv.messages # << >> /\ Last(conv.messages).agent = "convincer"
            THEN [conv EXCEPT !.interrogatorState.messages =
                      Append(@, ChatMessage("user", Last(conv.messages).content))]
            ELSE conv
    IN  Awaiting(folded, interrogatorVerdict(folded.interrogatorState,
                             [ctx EXCEPT !.caller = "endConversation"]))

\* Mutant of startSync: the Interrogator is asked to open whatever the human role.
startSyncAlwaysOpens(conv, ctx) ==
    LET active == [conv EXCEPT !.status = "active"]
    IN  Awaiting(active, interrogatorRespond(active.interrogatorState, None,
                             [ctx EXCEPT !.caller = "startConversation"]))

\* startConversation 134-142
startSync(conv, ctx) ==
    LET active == [conv EXCEPT !.status = "active"]
    IN  IF conv.config.humanRole = "interrogator"
        THEN Returned(active, "ok")
        ELSE Awaiting(active, interrogatorRespond(active.interrogatorState, None,
                                  [ctx EXCEPT !.caller = "startConversation"]))

\* Mutant of advanceSync: the turn limit is compared with > instead of >=.
advanceSyncStrictLimit(conv, ctx) ==
    IF conv.status # "active" THEN Returned(conv, "NotActive")
    ELSE IF totalTurns(conv) > conv.config.turnLimit THEN endSync(conv, ctx)
    ELSE IF conv.messages = << >> THEN Returned(conv, "TypeError")
    ELSE LET lastMessage == Last(conv.messages)
             nextAgent == Other(lastMessage.agent)
             actx == [ctx EXCEPT !.caller = "advanceConversation"]
         IN  IF conv.config.humanRole = nextAgent THEN Returned(conv, "ok")
             ELSE IF nextAgent = "convincer"
             THEN Awaiting(conv, convincerRespond(conv.convincerState,
                                     lastMessage.content, actx))
             ELSE Awaiting(conv, interrogatorRespond(conv.interrogatorState,
                                     Some(lastMessage.content), actx))

\* Mutant of advanceSync: the incoming message is pushed onto the agent's own
\* memory (not a copy of it) before the gateway is awaited.
advanceSyncInPlace(conv, ctx) ==
    IF conv.status # "active" THEN Returned(conv, "NotActive")
    ELSE IF totalTurns(conv) >= conv.config.turnLimit THEN endSync(conv, ctx)
    ELSE IF conv.messages = << >> THEN Returned(conv, "TypeError")
    ELSE LET lastMessage == Last(conv.messages)
             nextAgent == Other(lastMessage.agent)
             actx == [ctx EXCEPT !.caller = "advanceConversation"]
             user == ChatMessage("user", lastMessage.content)
         IN  IF conv.config.humanRole = nextAgent THEN Returned(conv, "ok")
             ELSE IF nextAgent = "convincer"
             THEN Awaiting([conv EXCEPT !.convincerState.messages = Append(@, user)],
                           convincerRespond(conv.convincerState,
                                            lastMessage.content, actx))
             ELSE Awaiting([conv EXCEPT !.interrogatorState.messages = Append(@, user)],
                           interrogatorRespond(conv.interrogatorState,
                                               Some(lastMessage.content), actx))

\* Mutant of advanceSync: the status is not tested.
advanceSyncAnyStatus(conv, ctx) ==
    IF totalTurns(conv) >= conv.config.turnLimit THEN endSync(conv, ctx)
    ELSE IF conv.messages = << >> THEN Returned(conv, "TypeError")
    ELSE LET lastMessage == Last(conv.messages)
             nextAgent == Other(lastMessage.agent)
             actx == [ctx EXCEPT !.caller = "advanceConversation"]
         IN  IF conv.config.humanRole = nextAgent THEN Returned(conv, "ok")
             ELSE IF nextAgent = "convincer"
             THEN Awaiting(conv, convincerRespond(conv.convincerState,
                                     lastMessage.content, actx))
             ELSE Awaiting(conv, interrogatorRespond(conv.interrogatorState,
                                     Some(lastMessage.content), actx))

\* Mutant of advanceSync: at the turn limit the conversation is returned as it is
\* instead of being ended.
advanceSyncStopsAtLimit(conv, ctx) ==
    IF conv.status # "active" THEN Returned(conv, "NotActive")
    ELSE IF totalTurns(conv) >= conv.config.turnLimit THEN Returned(conv, "ok")
    ELSE IF conv.messages = << >> THEN Returned(conv, "TypeError")
    ELSE LET lastMessage == Last(conv.messages)
             nextAgent == Other(lastMessage.agent)
             actx == [ctx EXCEPT !.caller = "advanceConversation"]
         IN  IF conv.config.humanRole = nextAgent THEN Returned(conv, "ok")
             ELSE IF nextAgent = "convincer"
             THEN Awaiting(conv, convincerRespond(conv.convincerState,
                                     lastMessage.content, actx))
             ELSE Awaiting(conv, interrogatorRespond(conv.interrogatorState,
                                     Some(lastMessage.content), actx))

\* advanceConversation 162-202
advanceSync(conv, ctx) ==
    IF conv.status # "active" THEN Returned(conv, "NotActive")
    ELSE IF totalTurns(conv) >= conv.config.turnLimit THEN endSync(conv, ctx)
    ELSE IF conv.messages = << >> THEN Returned(conv, "TypeError")
    ELSE LET lastMessage == Last(conv.messages)
             nextAgent == Other(lastMessage.agent)
             actx == [ctx EXCEPT !.caller = "advanceConversation"]
         IN  IF conv.config.humanRole = nextAgent THEN Returned(conv, "ok")
             ELSE IF nextAgent = "convincer"
             THEN Awaiting(conv, convincerRespond(conv.convincerState,
                                     lastMessage.content, actx))
             ELSE Awaiting(conv, interrogatorRespond(conv.interrogatorState,
                                     Some(lastMessage.content), actx))

\* Mutant of appendHuman: the role's turnCount is not incremented.
appendHumanNoCount(conv, agent, content) ==
    LET pushed == [conv EXCEPT !.messages = Append(@, Message(agent, content, None, None))]
    IN  IF agent = "interrogator"
        THEN [pushed EXCEPT
                 !.interrogatorState.messages = Append(@, ChatMessage("assistant", content))]
        ELSE [pushed EXCEPT
                 !.convincerState.messages = Append(@, ChatMessage("assistant", content))]

\* submitHumanMessage 246-262: the human's message and the role's own memory
appendHuman(conv, agent, content) ==
    LET pushed == [conv EXCEPT !.messages = Append(@, Message(agent, content, None, None))]
    IN  IF agent = "interrogator"
        THEN [pushed EXCEPT
                 !.interrogatorState.messages = Append(@, ChatMessage("assistant", content)),
                 !.interrogatorState.turnCount = @ + 1]
        ELSE [pushed EXCEPT
                 !.convincerState.messages = Append(@, ChatMessage("assistant", content)),
                 !.convincerState.turnCount = @ + 1]

\* Mutant of submitSync: the turn-order check is left out.
submitSyncNoTurnCheck(conv, content, ctx) ==
    IF conv.status # "active" THEN Returned(conv, "NotActive")
    ELSE IF conv.config.humanRole = "none" THEN Returned(conv, "NoHumanRole")
    ELSE LET said == appendHuman(conv, conv.config.humanRole, content)
         IN  IF totalTurns(said) >= said.config.turnLimit
             THEN endSync(said, ctx)
             ELSE advanceSync(said, ctx)

\* Mutant of submitSync: the expected speaker is decided from the transcript as
\* it was at the last completed turn (the counterpart's last message), so a
\* human message that still awaits its reply does not count.
submitSyncStaleTurn(conv, content, ctx) ==
    IF conv.status # "active" THEN Returned(conv, "NotActive")
    ELSE IF conv.config.humanRole = "none" THEN Returned(conv, "NoHumanRole")
    ELSE LET human == conv.config.humanRole
             settled == IF conv.messages # << >> /\ Last(conv.messages).agent = human
                        THEN SubSeq(conv.messages, 1, Len(conv.messages) - 1)
                        ELSE conv.messages
             expectedAgent == IF settled = << >> THEN "interrogator"
                              ELSE Other(Last(settled).agent)
         IN  IF human # expectedAgent THEN Returned(conv, "NotYourTurn")
             ELSE LET said == appendHuman(conv, expectedAgent, content)
                  IN  IF totalTurns(said) >= said.config.turnLimit
                      THEN endSync(said, ctx)
                      ELSE advanceSync(said, ctx)

\* submitHumanMessage 228-271
submitSync(conv, content, ctx) ==
    IF conv.status # "active" THEN Returned(conv, "NotActive")
    ELSE IF conv.config.humanRole = "none" THEN Returned(conv, "NoHumanRole")
    ELSE LET expectedAgent == IF conv.messages = << >> THEN "interrogator"
                              ELSE Other(Last(conv.messages).agent)
         IN  IF conv.config.humanRole # expectedAgent THEN Returned(conv, "NotYourTurn")
             ELSE LET said == appendHuman(conv, expectedAgent, content)
                  IN  IF totalTurns(said) >= said.config.turnLimit
                      THEN endSync(said, ctx)
                      ELSE advanceSync(said, ctx)

\* Mutant of saveToHistory: the snapshot is appended without removing the
\* entry of the same id.
saveToHistoryAppendOnly(hist, conv) == Append(hist, conv)

\* saveToHistory: replace the entry of this id, else append
saveToHistory(hist, conv) ==
    Append(SelectSeq(hist, LAMBDA c : c.id # conv.id), conv)

\* interrogatorRespond 122-146 after its await: the new state and the parse
interrogatorReturn(call, raw) ==
    LET parsed == parseResponse(raw)
    IN  [response |-> parsed.response, analysis |-> parsed.analysis,
         state |-> [messages |-> Append(call.newMessages,
                                        ChatMessage("assistant", parsed.response)),
                    turnCount |-> call.turnCount + 1]]

\* Mutant of convincerReturn: the turnCount is not incremented.
convincerReturnNoCount(call, raw) ==
    [response |-> raw,
     state |-> [messages |-> Append(call.newMessages, ChatMessage("assistant", raw)),
                turnCount |-> call.turnCount]]

\* convincerRespond 304-313 after its await
convincerReturn(call, raw) ==
    [response |-> raw,
     state |-> [messages |-> Append(call.newMessages, ChatMessage("assistant", raw)),
                turnCount |-> call.turnCount + 1]]

\* Mutant of startReturn: the opening message carries the parsed analysis.
startReturnWithAnalysis(conv, call, raw) ==
    LET r == interrogatorReturn(call, raw)
        thought == IF r.analysis = None THEN None ELSE r.analysis[1].thought
        suspicion == IF r.analysis = None THEN None ELSE r.analysis[1].suspicion
    IN  [conv EXCEPT !.interrogatorState = r.state,
                     !.messages = Append(@, Message("interrogator", r.response,
                                                    thought, suspicion))]

\* startConversation 144-151 after its await
startReturn(conv, call, raw) ==
    LET r == interrogatorReturn(call, raw)
    IN  [conv EXCEPT !.interrogatorState = r.state,
                     !.messages = Append(@, Message("interrogator", r.response, None, None))]

\* Mutant of advanceReturn: a Convincer reply also counts a turn for the
\* Interrogator.
advanceReturnCountsBoth(conv, call, raw) ==
    IF call.fn = "convincerRespond"
    THEN LET r == convincerReturn(call, raw)
         IN  [conv EXCEPT !.convincerState = r.state,
                          !.interrogatorState.turnCount = @ + 1,
                          !.messages = Append(@, Message("convincer", r.response, None, None))]
    ELSE LET r == interrogatorReturn(call, raw)
             thought == IF r.analysis = None THEN None ELSE r.analysis[1].thought
             suspicion == IF r.analysis = None THEN None ELSE r.analysis[1].suspicion
         IN  [conv EXCEPT !.interrogatorState = r.state,
                          !.messages = Append(@, Message("interrogator", r.response,
                                                         thought, suspicion))]

\* advanceConversation 190-213 after its await
advanceReturn(conv, call, raw) ==
    IF call.fn = "convincerRespond"
    THEN LET r == convincerReturn(call, raw)
         IN  [conv EXCEPT !.convincerState = r.state,
                          !.messages = Append(@, Message("convincer", r.response, None, None))]
    ELSE LET r == interrogatorReturn(call, raw)
             thought == IF r.analysis = None THEN None ELSE r.analysis[1].thought
             suspicion == IF r.analysis = None THEN None ELSE r.analysis[1].suspicion
         IN  [conv EXCEPT !.interrogatorState = r.state,
                          !.messages = Append(@, Message("interrogator", r.response,
                                                         thought, suspicion))]

\* endConversation 288-292 after its await
endReturn(conv, resp, now) ==
    [conv EXCEPT !.verdict = Some(parseVerdict(resp)),
                 !.status = "completed",
                 !.completedAt = Some(now)]

-----------------------------------------------------------------------------
(* The state machine *)

Init ==
    /\ conversations = << >>
    /\ history = << >>
    /\ pending = [s \in Slots |-> NoCall]
    /\ clock = 0
    /\ script = [phase |-> "none", advances |-> 0]

Known == DOMAIN conversations

Idle == \A s \in Slots : pending[s] = NoCall

FreeSlot == Min({s \in Slots : pending[s] = NoCall})

Ctx(op, id) == [op |-> op, id |-> id, caller |-> op, pre |-> Some(conversations[id])]

\* The script: create, then start, then advances, every call returning normally,
\* on a conversation without a human role.
scriptAfter(op, id, outcome) ==
    IF id \in DOMAIN conversations /\ conversations[id].config.humanRole = "none"
       /\ outcome = "ok"
    THEN IF op = "startConversation" /\ script.phase = "created"
         THEN [phase |-> "running", advances |-> 0]
         ELSE IF op = "advanceConversation" /\ script.phase = "running"
                 /\ script.advances < 2 * conversations[id].config.turnLimit + 1
         THEN [phase |-> "running", advances |-> script.advances + 1]
         ELSE [phase |-> "off", advances |-> 0]
    ELSE [phase |-> "off", advances |-> 0]

\* The call returns to its caller (normally or with the error it threw).
Return(op, id, outcome) ==
    script' = scriptAfter(op, id, outcome)

\* Mutant of NotFound: an unknown id is registered as a new conversation.
NotFoundRegisters(op, id) ==
    /\ id \notin DOMAIN conversations
    /\ Return(op, id, "NotFound")
    /\ conversations' =
          (id :> newConversation(id, [turnLimit |-> MinTurnLimit, humanRole |-> "none"]))
             @@ conversations
    /\ UNCHANGED <<history, pending, clock>>

NotFound(op, id) ==
    /\ id \notin DOMAIN conversations
    /\ Return(op, id, "NotFound")
    /\ UNCHANGED <<conversations, history, pending, clock>>

\* The code of op up to its first await or its return, with outcome r.
Invoke(op, id, r) ==
    /\ \E s \in Slots : pending[s] = NoCall
    /\ Len(r.conv.interrogatorState.messages) <= MaxMem
       \/ r.conv.interrogatorState = conversations[id].interrogatorState
    /\ conversations' = [conversations EXCEPT ![id] = r.conv]
    /\ IF r.outcome = "await"
       THEN /\ pending' = [pending EXCEPT ![FreeSlot] = r.call]
            /\ UNCHANGED script
       ELSE /\ Return(op, id, r.outcome)
            /\ UNCHANGED pending
    /\ UNCHANGED <<history, clock>>

\* createConversation with generateId() drawing the new id from ids.
createWithin(ids, config) ==
    /\ \E id \in ids \ DOMAIN conversations :
          conversations' = (id :> newConversation(id, config)) @@ conversations
    /\ script' = [phase |-> "created", advances |-> 0]
    /\ UNCHANGED <<history, pending, clock>>

createConversation(config) == createWithin(ConvIds, config)

startConversation(id) ==
    \/ NotFound("startConversation", id)
    \/ /\ id \in DOMAIN conversations
       /\ Len(conversations[id].messages) < MaxRestartLen
       /\ Invoke("startConversation", id,
                 startSync(conversations[id], Ctx("startConversation", id)))

advanceConversation(id) ==
    \/ NotFound("advanceConversation", id)
    \/ /\ id \in DOMAIN conversations
       /\ Invoke("advanceConversation", id,
                 advanceSync(conversations[id], Ctx("advanceConversation", id)))

submitHumanMessage(id, content) ==
    \/ NotFound("submitHumanMessage", id)
    \/ /\ id \in DOMAIN conversations
       /\ Invoke("submitHumanMessage", id,
                 submitSync(conversations[id], content, Ctx("submitHumanMessage", id)))

endConversation(id) ==
    \/ NotFound("endConversation", id)
    \/ /\ id \in DOMAIN conversations
       /\ Invoke("endConversation", id,
                 endSync(conversations[id], Ctx("endConversation", id)))

\* generateResponse answers a respond request with the text raw.
respondReturns(s, raw) ==
    LET call == pending[s]
        id == call.ctx.id
    IN  /\ call.fn \in {"interrogatorRespond", "convincerRespond"}
        /\ conversations' =
              [conversations EXCEPT ![id] =
                  IF call.ctx.caller = "startConversation"
                  THEN startReturn(@, call, raw)
                  ELSE advanceReturn(@, call, raw)]
        /\ pending' = [pending EXCEPT ![s] = NoCall]
        /\ Return(call.ctx.op, id, "ok")
        /\ UNCHANGED <<history, clock>>

\* generateResponse answers the verdict request with resp.
verdictReturns(s, resp) ==
    LET call == pending[s]
        id == call.ctx.id
        done == endReturn(conversations[id], resp, clock)
    IN  /\ call.fn = "interrogatorVerdict"
        /\ conversations' = [conversations EXCEPT ![id] = done]
        /\ history' = saveToHistory(history, done)
        /\ clock' = IF clock < MaxClock THEN clock + 1 ELSE clock
        /\ pending' = [pending EXCEPT ![s] = NoCall]
        /\ Return(call.ctx.op, id, "ok")

\* generateResponse throws (openai.ts 62-65); no caller catches it.
generateResponseThrows(s) ==
    LET call == pending[s]
    IN  /\ call # NoCall
        /\ pending' = [pending EXCEPT ![s] = NoCall]
        /\ Return(call.ctx.op, call.ctx.id, "GatewayError")
        /\ UNCHANGED <<conversations, history, clock>>

Config(turnLimit, humanRole) == [turnLimit |-> turnLimit, humanRole |-> humanRole]

\* What the gateway answers to a request of the agent function fn.
Replies(fn) ==
    IF fn = "convincerRespond" THEN ConvincerReplies
    ELSE IF fn = "interrogatorRespond" THEN InterrogatorReplies
    ELSE {}

\* One call at a time: a call is invoked only when none awaits the gateway.
Next ==
    \/ \E t \in TurnLimits, h \in HumanRoles : Idle /\ createConversation(Config(t, h))
    \/ \E id \in AllIds : Idle /\ startConversation(id)
    \/ \E id \in AllIds : Idle /\ advanceConversation(id)
    \/ \E id \in AllIds, content \in HumanContents : Idle /\ submitHumanMessage(id, content)
    \/ \E id \in AllIds : Idle /\ endConversation(id)
    \/ \E s \in Slots : \E raw \in Replies(pending[s].fn) : respondReturns(s, raw)
    \/ \E s \in Slots, resp \in VerdictResponses : verdictReturns(s, resp)
    \/ \E s \in Slots : generateResponseThrows(s)

Spec == Init /\ [][Next]_vars

\* Calls may overlap: a call is invoked while others await the gateway.  The
\* callers are those of the experiment page: start once on the new conversation,
\* then advance, submit and end while it is active.
OverlapReplies == { <<"r">> }
OverlapVerdicts == { JsonVerdict(Some("human"), Some(83), Some("r")) }

IsIdle(id) == id \in DOMAIN conversations /\ conversations[id].status = "idle"
IsActive(id) == id \in DOMAIN conversations /\ conversations[id].status = "active"

NextOverlap ==
    \/ \E t \in TurnLimits, h \in HumanRoles : createConversation(Config(t, h))
    \/ \E id \in ConvIds : IsIdle(id) /\ Idle /\ startConversation(id)
    \/ \E id \in ConvIds : IsActive(id) /\ advanceConversation(id)
    \/ \E id \in ConvIds, content \in HumanContents :
          IsActive(id) /\ submitHumanMessage(id, content)
    \/ \E id \in ConvIds : IsActive(id) /\ endConversation(id)
    \/ \E s \in Slots, raw \in OverlapReplies : respondReturns(s, raw)
    \/ \E s \in Slots, resp \in OverlapVerdicts : verdictReturns(s, resp)
    \/ \E s \in Slots : generateResponseThrows(s)

SpecOverlap == Init /\ [][NextOverlap]_vars

\* The verdict request answered with every kind of text: no JSON, or an object
\* whose verdict is the literal, another spelling, another word or absent, whose
\* confidence is any integer around [0, 100], null, a word or absent, and whose
\* reasoning is given or absent.  end is called on a conversation that has no
\* verdict yet.
ConfidenceInputs ==
    { Some(n) : n \in (0 - ConfidenceMargin)..(MaxConfidence + ConfidenceMargin) }
       \cup { None, JsonNull, JsonString("high") }

VerdictInputs ==
    { NotJson } \cup
    { JsonVerdict(v, c, r) :
         v \in { Some("human"), Some("Human"), Some("ai"), None },
         c \in ConfidenceInputs,
         r \in { Some("r"), None } }

NextVerdict ==
    \/ Idle /\ createConversation(Config(MinTurnLimit, "none"))
    \/ \E id \in AllIds :
          Idle /\ (id \in Known => conversations[id].verdict = None) /\ endConversation(id)
    \/ \E s \in Slots, resp \in VerdictInputs : verdictReturns(s, resp)
    \/ \E s \in Slots : generateResponseThrows(s)

SpecVerdict == Init /\ [][NextVerdict]_vars

\* Two conversations started and ended in any order, each any number of times,
\* one call at a time.
HistoryIds == {"c1", "c2"}
HistoryVerdicts == { NotJson, JsonVerdict(Some("human"), Some(83), Some("r")) }

NextHistory ==
    \/ Idle /\ createWithin(HistoryIds, Config(MinTurnLimit, "none"))
    \/ \E id \in HistoryIds \cup {UnknownId} : Idle /\ startConversation(id)
    \/ \E id \in HistoryIds \cup {UnknownId} : Idle /\ endConversation(id)
    \/ \E s \in Slots, raw \in OverlapReplies : respondReturns(s, raw)
    \/ \E s \in Slots, resp \in HistoryVerdicts : verdictReturns(s, resp)
    \/ \E s \in Slots : generateResponseThrows(s)

SpecHistory == Init /\ [][NextHistory]_vars

\* The experiment page without a human: the conversation is created, started
\* once and then advanced again and again (the auto-advance effect re-issues
\* advance while the conversation is active), and the gateway answers every
\* call.
AdvanceCall == \E id \in ConvIds : Idle /\ advanceConversation(id)

GatewayAnswers ==
    \/ \E s \in Slots : \E raw \in Replies(pending[s].fn) : respondReturns(s, raw)
    \/ \E s \in Slots, resp \in VerdictResponses : verdictReturns(s, resp)

NextAutoAdvance ==
    \/ \E t \in TurnLimits : Idle /\ createConversation(Config(t, "none"))
    \/ \E id \in ConvIds : Idle /\ IsIdle(id) /\ startConversation(id)
    \/ AdvanceCall
    \/ GatewayAnswers

SpecAutoAdvance ==
    Init /\ [][NextAutoAdvance]_vars /\ WF_vars(AdvanceCall) /\ WF_vars(GatewayAnswers)

-----------------------------------------------------------------------------
(* The HTTP boundary *)

\* Mutant of clampTurnLimit: the floor Math.max(3, ...) is left out.
clampTurnLimitNoFloor(turnLimit) ==
    IF turnLimit > MaxTurnLimit THEN MaxTurnLimit ELSE turnLimit

\* Math.min(30, Math.max(3, turnLimit))
clampTurnLimit(turnLimit) ==
    Min({MaxTurnLimit, Max({MinTurnLimit, turnLimit})})

\* POST /api/conversations
postConversations(turnLimit, humanRole) ==
    createConversation(Config(clampTurnLimit(turnLimit), humanRole))

\* POST /api/conversations/:id/message with body.content absent (None) or a
\* text: 400 when the content is falsy, else submitHumanMessage of the trimmed
\* content.
postMessage(id, content) ==
    IF content = None \/ content[1] = << >>
    THEN /\ Return("submitHumanMessage", id, "BadRequest")
         /\ UNCHANGED <<conversations, history, pending, clock>>
    ELSE submitHumanMessage(id, trim(content[1]))

\* What clients send: turn limits around both ends of [3, 30]; no content,
\* the empty text, whitespace, and text with and without surrounding whitespace.
RequestedTurnLimits ==
    ((MinTurnLimit - TurnLimitMargin)..(MinTurnLimit + TurnLimitMargin))
       \cup ((MaxTurnLimit - TurnLimitMargin)..(MaxTurnLimit + TurnLimitMargin))

BodyContents ==
    { None, Some(<< >>), Some(<<"_">>), Some(<<"h">>), Some(<<"_", "h", "_">>) }

NextApi ==
    \/ \E t \in RequestedTurnLimits, h \in HumanRoles : Idle /\ postConversations(t, h)
    \/ \E id \in ConvIds : Idle /\ IsIdle(id) /\ startConversation(id)
    \/ \E id \in AllIds, content \in BodyContents :
          /\ Idle
          /\ id \in Known => Len(conversations[id].messages) <= MaxApiLen
          /\ postMessage(id, content)
    \/ \E s \in Slots, raw \in OverlapReplies : respondReturns(s, raw)
    \/ \E s \in Slots, resp \in OverlapVerdicts : verdictReturns(s, resp)

SpecApi == Init /\ [][NextApi]_vars

-----------------------------------------------------------------------------
(* The Interrogator's analysis *)

\* What the model can answer to the Interrogator: no analysis, a well-formed
\* analysis (suspicion in range, out of range, not a number, absent), an
\* analysis whose body is no JSON, a marker without braces, and an analysis
\* with no visible text before it.
AnalysisReplies ==
    { <<"q">>,
      <<"q", "_", "[ANALYSIS]", "_", "{", "s70", "}">>,
      <<"q", "_", "[ANALYSIS]", "_", "{", "s150", "}">>,
      <<"q", "_", "[ANALYSIS]", "_", "{", "sHigh", "}">>,
      <<"q", "_", "[ANALYSIS]", "_", "{", "empty", "}">>,
      <<"p", "_", "[ANALYSIS]", "_", "{", "bad", "}">>,
      <<"q", "_", "[ANALYSIS]", "_", "bad">>,
      <<"[ANALYSIS]", "{", "s70", "}">> }

RepliesTo(fn) == IF fn = "interrogatorRespond" THEN AnalysisReplies ELSE OverlapReplies

NextAnalysis ==
    \/ Idle /\ createConversation(Config(MinTurnLimit, "none"))
    \/ \E id \in ConvIds : Idle /\ IsIdle(id) /\ startConversation(id)
    \/ \E id \in ConvIds : Idle /\ IsActive(id) /\ advanceConversation(id)
    \/ \E s \in Slots : \E raw \in RepliesTo(pending[s].fn) : respondReturns(s, raw)
    \/ \E s \in Slots, resp \in OverlapVerdicts : verdictReturns(s, resp)

SpecAnalysis == Init /\ [][NextAnalysis]_vars

-----------------------------------------------------------------------------
(* Properties *)

Alternates(msgs) ==
    \A i \in 1..Len(msgs) : (msgs[i].agent = "interrogator") <=> (i % 2 = 1)

\* C1: in every state reached by non-overlapping calls the transcript alternates,
\* starting with the Interrogator: the message at (0-based) index i is tagged
\* interrogator iff i is even.
C1_TranscriptAlternates ==
    \A id \in Known : Alternates(conversations[id].messages)

\* C2: status only moves forward: a completed conversation stays completed and
\* an active conversation never becomes idle again.
C2_StatusOnlyForward ==
    [][\A id \in Known :
          /\ conversations[id].status = "completed"
                => conversations'[id].status = "completed"
          /\ conversations[id].status = "active"
                => conversations'[id].status # "idle"]_vars

\* C3: with overlapping advance calls the transcript still gains at most one
\* message per turn: no two adjacent transcript entries carry the same agent.
C3_NoAdjacentSameAgent ==
    \A id \in Known :
        \A i \in 1..(Len(conversations[id].messages) - 1) :
            conversations[id].messages[i].agent # conversations[id].messages[i + 1].agent

\* C4: the verdict is produced once: no step replaces the verdict stored on a
\* completed conversation.
C4_VerdictProducedOnce ==
    [][\A id \in Known :
          conversations[id].status = "completed" /\ conversations[id].verdict # None
             => conversations'[id].verdict = conversations[id].verdict]_vars

\* C5: the transcript never holds more than 2 * turnLimit messages, whatever
\* the human role.
C5_TranscriptWithinTurnLimit ==
    \A id \in Known :
        Len(conversations[id].messages) <= 2 * conversations[id].config.turnLimit

HistoryEntries(id) == {i \in 1..Len(history) : history[i].id = id}

ScriptAt(k) == script.phase = "running" /\ script.advances = k

\* C6 as stated: with turnLimit 3 and no human role, after create, start and
\* three advance calls that all succeed the conversation is completed with 4
\* messages, a verdict and one history entry.
C6_CompletedAfterThreeAdvances ==
    \A id \in Known :
        ScriptAt(3) /\ Idle /\ conversations[id].config.turnLimit = 3
           => /\ conversations[id].status = "completed"
              /\ Len(conversations[id].messages) = 4
              /\ conversations[id].verdict # None
              /\ Cardinality(HistoryEntries(id)) = 1

\* C6 amended: with turnLimit 3 and no human role, each of the first five
\* advance calls appends one message and leaves the conversation active without
\* a verdict; the sixth advance triggers end: the conversation is completed with
\* exactly 6 messages, a verdict and exactly one history entry of its id.
C6_CompletedAfterSixAdvances ==
    \A id \in Known :
        script.phase = "running" /\ Idle /\ conversations[id].config.turnLimit = 3
           => IF script.advances < 6
              THEN /\ conversations[id].status = "active"
                   /\ Len(conversations[id].messages) = 1 + script.advances
                   /\ conversations[id].verdict = None
                   /\ HistoryEntries(id) = {}
              ELSE /\ script.advances = 6
                   /\ conversations[id].status = "completed"
                   /\ Len(conversations[id].messages) = 6
                   /\ conversations[id].verdict # None
                   /\ Cardinality(HistoryEntries(id)) = 1

C6_Witness ==
    \E id \in Known : ScriptAt(6) /\ conversations[id].status = "completed"

\* The call in slot s was invoked as op on a conversation that was active with
\* its turn limit reached.
AtLimit(conv) == conv.status = "active" /\ totalTurns(conv) >= conv.config.turnLimit

\* C7: advance on an active conversation with floor(len/2) >= turnLimit does
\* what end does: it issues the verdict request of end (never a respond
\* request), appends no message, and when the verdict arrives the conversation
\* is completed with a verdict and the transcript it had.
C7_AdvanceAtLimitIsEnd ==
    /\ [](\A s \in Slots :
             LET c == pending[s]
             IN  c.ctx.op = "advanceConversation" /\ AtLimit(c.ctx.pre[1])
                    => /\ c.fn = "interrogatorVerdict"
                       /\ c = endSync(c.ctx.pre[1], c.ctx).call
                       /\ conversations[c.ctx.id] = endSync(c.ctx.pre[1], c.ctx).conv)
    /\ [][\A s \in Slots :
             LET c == pending[s]
             IN  /\ c.ctx.op = "advanceConversation"
                 /\ AtLimit(c.ctx.pre[1])
                 /\ \E resp \in VerdictResponses : verdictReturns(s, resp)
                 => /\ conversations'[c.ctx.id].messages = c.ctx.pre[1].messages
                    /\ conversations'[c.ctx.id].status = "completed"
                    /\ conversations'[c.ctx.id].verdict # None]_vars

C7_Witness ==
    \E s \in Slots :
        /\ pending[s].ctx.op = "advanceConversation"
        /\ AtLimit(pending[s].ctx.pre[1])
        /\ pending[s].fn = "interrogatorVerdict"
        /\ ENABLED (\E resp \in VerdictResponses : verdictReturns(s, resp))

\* C8 as stated: whenever a model call fails during advance, the conversation
\* is exactly as it was before the advance.
C8_AnyFailedAdvanceChangesNothing ==
    [][\A s \in Slots :
          LET c == pending[s]
          IN  c.ctx.op = "advanceConversation" /\ generateResponseThrows(s)
                 => conversations'[c.ctx.id] = c.ctx.pre[1]]_vars

\* C8 amended: when the respond call of an advance fails (an advance below the
\* turn limit), the conversation is exactly as it was before the advance
\* (transcript, status, verdict, both agents' memory and turnCount), and
\* advance invoked again issues the same request.
C8_FailedAdvanceChangesNothing ==
    [][\A s \in Slots :
          LET c == pending[s]
          IN  /\ c.ctx.op = "advanceConversation"
              /\ c.ctx.caller = "advanceConversation"
              /\ generateResponseThrows(s)
              => /\ conversations'[c.ctx.id] = c.ctx.pre[1]
                 /\ advanceSync(conversations'[c.ctx.id], c.ctx).call = c]_vars

C8_Witness ==
    \E s \in Slots :
        /\ pending[s].ctx.op = "advanceConversation"
        /\ pending[s].ctx.caller = "advanceConversation"
        /\ pending[s].fn = "interrogatorRespond"
        /\ Len(pending[s].ctx.pre[1].messages) >= 2
        /\ ENABLED generateResponseThrows(s)

\* C9: when the Interrogator's model call fails during start on an idle
\* conversation, the conversation is unchanged: still idle, transcript empty.
C9_FailedStartChangesNothing ==
    [][\A s \in Slots :
          LET c == pending[s]
          IN  /\ c.ctx.op = "startConversation"
              /\ c.ctx.pre[1].status = "idle"
              /\ generateResponseThrows(s)
              => /\ conversations'[c.ctx.id] = c.ctx.pre[1]
                 /\ conversations'[c.ctx.id].status = "idle"
                 /\ conversations'[c.ctx.id].messages = << >>]_vars

\* C10: when the counterpart's model call fails inside submitHumanMessage, the
\* human turn is not appended and the state is unchanged, so the same
\* submitHumanMessage is accepted again.
C10_FailedSubmitChangesNothing ==
    [][\A s \in Slots :
          LET c == pending[s]
          IN  /\ c.ctx.op = "submitHumanMessage"
              /\ c.ctx.caller = "advanceConversation"
              /\ generateResponseThrows(s)
              => /\ conversations'[c.ctx.id] = c.ctx.pre[1]
                 /\ \A content \in HumanContents :
                       submitSync(conversations'[c.ctx.id], content, c.ctx).outcome
                          = "await"]_vars

\* The speaker the transcript calls for: the Interrogator on an empty
\* transcript, otherwise the complement of the last entry's agent.
NextSpeaker(conv) ==
    IF conv.messages = << >> THEN "interrogator" ELSE Other(Last(conv.messages).agent)

\* The human's role is configured and it is not the human's turn.
OutOfTurn(conv) ==
    /\ conv.status = "active"
    /\ conv.config.humanRole \notin {"none", NextSpeaker(conv)}

AgentState(conv, agent) ==
    IF agent = "interrogator" THEN conv.interrogatorState ELSE conv.convincerState

\* conv is pre with exactly one more message, tagged with the human's role and
\* carrying one of the submitted contents, and that role's turnCount is one more.
HumanTurnAdded(pre, conv) ==
    LET human == pre.config.humanRole
        n == Len(pre.messages)
    IN  /\ Len(conv.messages) >= n + 1
        /\ SubSeq(conv.messages, 1, n) = pre.messages
        /\ conv.messages[n + 1].agent = human
        /\ conv.messages[n + 1].content \in HumanContents
        /\ AgentState(conv, human).turnCount = AgentState(pre, human).turnCount + 1

\* C12: a successful submitHumanMessage appends exactly one message tagged with
\* the human's role and increments that role's turnCount by one; then, in the
\* same call, either the turn limit is reached (the verdict is requested and
\* its arrival completes the conversation with a verdict and no further
\* message), or exactly one AI message of the opposite role is appended.
C12_SubmitAppendsHumanThenCounterpart ==
    /\ [](\A s \in Slots :
             LET c == pending[s]
                 pre == c.ctx.pre[1]
                 conv == conversations[c.ctx.id]
             IN  c.ctx.op = "submitHumanMessage"
                    => /\ HumanTurnAdded(pre, conv)
                       /\ Len(conv.messages) = Len(pre.messages) + 1
                       /\ (c.fn = "interrogatorVerdict")
                             <=> ((Len(pre.messages) + 1) \div 2 >= pre.config.turnLimit)
                       /\ c.fn # "interrogatorVerdict"
                             => c.fn = IF pre.config.humanRole = "interrogator"
                                       THEN "convincerRespond" ELSE "interrogatorRespond")
    /\ [][\A s \in Slots :
             LET c == pending[s]
                 pre == c.ctx.pre[1]
                 after == conversations'[c.ctx.id]
             IN  c.ctx.op = "submitHumanMessage"
                    => /\ (\E resp \in VerdictResponses : verdictReturns(s, resp))
                          => /\ HumanTurnAdded(pre, after)
                             /\ Len(after.messages) = Len(pre.messages) + 1
                             /\ after.status = "completed"
                             /\ after.verdict # None
                       /\ (\E raw \in Replies(c.fn) : respondReturns(s, raw))
                          => /\ HumanTurnAdded(pre, after)
                             /\ Len(after.messages) = Len(pre.messages) + 2
                             /\ Last(after.messages).agent = Other(pre.config.humanRole)
                             /\ after.status = "active"
                             /\ after.verdict = pre.verdict]_vars

\* A submit whose counterpart has answered: the transcript ends with the human's
\* message followed by the AI's.
C12_Witness ==
    \E id \in Known :
        LET conv == conversations[id]
            n == Len(conv.messages)
        IN  /\ Idle
            /\ conv.config.humanRole = "convincer"
            /\ n >= 3
            /\ conv.messages[n].agent = "interrogator"
            /\ conv.messages[n - 1].agent = "convincer"
            /\ conv.messages[n - 1].content \in HumanContents
            /\ conv.convincerState.turnCount >= 1

\* C13: advance on an active conversation (below its turn limit) whose next
\* speaker is the human role returns successfully with the conversation
\* unchanged and makes no model call, the state right after start with
\* humanRole = interrogator and an empty transcript included.
C13_AdvanceOnHumanTurnIsNoOp ==
    \A id \in Known :
        LET conv == conversations[id]
        IN  /\ conv.status = "active"
            /\ totalTurns(conv) < conv.config.turnLimit
            /\ conv.config.humanRole = NextSpeaker(conv)
            => advanceSync(conv, Ctx("advanceConversation", id)) = Returned(conv, "ok")

\* The chat turns the transcript stands for in the Interrogator's memory: its own
\* messages as assistant turns, the Convincer's as user turns.
Mirror(msgs) ==
    [i \in 1..Len(msgs) |->
        ChatMessage(IF msgs[i].agent = "interrogator" THEN "assistant" ELSE "user",
                    msgs[i].content)]

\* C14: when the verdict request is issued, the Interrogator's memory holds,
\* after its system prompt, every transcript message in order (its own as
\* assistant turns, the Convincer's as user turns), whatever the human role.
C14_VerdictMemoryMirrorsTranscript ==
    \A s \in Slots :
        LET c == pending[s]
            conv == conversations[c.ctx.id]
        IN  c.fn = "interrogatorVerdict"
               => /\ conv.interrogatorState.messages
                        = <<ChatMessage("system", SystemPromptI)>> \o Mirror(conv.messages)
                  /\ c.request = Append(conv.interrogatorState.messages,
                                        ChatMessage("user", verdictPrompt))

\* C15: when the model call of end fails, the error propagates and the
\* conversation is not completed: status, verdict and completedAt are what they
\* were when end was invoked (a conversation that was not completed is not
\* completed, a null verdict and a null completedAt stay null) and nothing is
\* written to the history store.
C15_FailedEndCompletesNothing ==
    [][\A s \in Slots :
          LET c == pending[s]
              pre == c.ctx.pre[1]
              after == conversations'[c.ctx.id]
          IN  c.fn = "interrogatorVerdict" /\ generateResponseThrows(s)
                 => /\ after.status = pre.status
                    /\ after.verdict = pre.verdict
                    /\ after.completedAt = pre.completedAt
                    /\ after.messages = conversations[c.ctx.id].messages
                    /\ pre.status # "completed" => after.status # "completed"
                    /\ pre.verdict = None
                          => after.verdict = None /\ after.completedAt = None
                    /\ history' = history]_vars

C15_Witness ==
    \E s \in Slots :
        /\ pending[s].fn = "interrogatorVerdict"
        /\ pending[s].ctx.op = "endConversation"
        /\ pending[s].ctx.pre[1].status = "active"
        /\ pending[s].ctx.pre[1].messages # << >>
        /\ ENABLED generateResponseThrows(s)

\* C16: a verdict response that is not valid JSON never makes end fail: the
\* answer is always taken, and end completes the conversation with exactly the
\* fallback verdict {ai, 50, 'Unable to parse verdict response'}, stored in the
\* history too.
C16_UnparsableVerdictFallsBack ==
    /\ [](\A s \in Slots :
             pending[s].fn = "interrogatorVerdict" => ENABLED verdictReturns(s, NotJson))
    /\ [][\A s \in Slots :
             LET id == pending[s].ctx.id
             IN  verdictReturns(s, NotJson)
                    => /\ conversations'[id].status = "completed"
                       /\ conversations'[id].verdict =
                             Some([verdict |-> "ai", confidence |-> 50,
                                   reasoning |-> "Unable to parse verdict response"])
                       /\ Last(history') = conversations'[id]]_vars

C16_Witness ==
    \E id \in Known :
        /\ conversations[id].status = "completed"
        /\ conversations[id].messages # << >>
        /\ conversations[id].verdict # None
        /\ conversations[id].verdict[1].reasoning = "Unable to parse verdict response"

\* The confidence the contract gives for a supplied field: a number clamped into
\* [0, 100], and 50 when the field is missing or no number.
Clamped(c) ==
    IF IsNumber(c)
    THEN IF c[1] < 0 THEN 0 ELSE IF c[1] > 100 THEN 100 ELSE c[1]
    ELSE 50

\* C17: for a response that parses as a JSON object the stored confidence is
\* the supplied number clamped into [0, 100] (every integer of 0..100, 0
\* included, unchanged; below 0 gives 0; above 100 gives 100) and 50 only when
\* the field is missing or non-numeric.
C17_ConfidenceIsClamped ==
    [][\A s \in Slots, resp \in VerdictInputs :
          resp.json /\ verdictReturns(s, resp)
             => conversations'[pending[s].ctx.id].verdict[1].confidence
                   = Clamped(resp.confidence)]_vars

\* C18: every verdict stored on a conversation or in the history, whatever the
\* model returned, has verdict human or ai and a confidence within 0..100, and
\* the verdict is human only when the parsed field is exactly 'human'.
C18_StoredVerdictWellFormed ==
    /\ [](\A id \in Known :
             conversations[id].verdict # None
                => /\ conversations[id].verdict[1].verdict \in {"human", "ai"}
                   /\ conversations[id].verdict[1].confidence \in 0..100)
    /\ [](\A i \in 1..Len(history) :
             /\ history[i].verdict # None
             /\ history[i].verdict[1].verdict \in {"human", "ai"}
             /\ history[i].verdict[1].confidence \in 0..100)
    /\ [][\A s \in Slots, resp \in VerdictInputs :
             /\ verdictReturns(s, resp)
             /\ conversations'[pending[s].ctx.id].verdict[1].verdict = "human"
             => resp.json /\ resp.verdict = Some("human")]_vars

\* A verdict stored from a response whose confidence was at or above the ceiling
\* and whose verdict was not the literal.
C18_Witness ==
    \E id \in Known :
        /\ conversations[id].verdict # None
        /\ conversations[id].verdict[1].verdict = "ai"
        /\ conversations[id].verdict[1].confidence = 100
        /\ conversations[id].verdict[1].reasoning = "r"

\* The history entry of id (there is one).
EntryOf(hist, id) == hist[CHOOSE i \in 1..Len(hist) : hist[i].id = id]

Ended(id) == id \in Known /\ conversations[id].verdict # None

\* C19: after any sequence of end calls, repeated ones included, the history
\* holds exactly one entry per conversation id that end has completed (none for
\* the others), and that entry is the snapshot written by the most recent end:
\* an end that completes writes the conversation as it leaves it, keeps the
\* entries of the other ids, and nothing else changes the history.
C19_OneHistoryEntryPerCompletedId ==
    /\ [](\A i \in 1..Len(history) : Ended(history[i].id))
    /\ [](\A id \in Known :
             Cardinality(HistoryEntries(id)) = IF Ended(id) THEN 1 ELSE 0)
    /\ [][\A s \in Slots :
             LET id == pending[s].ctx.id
             IN  (\E resp \in HistoryVerdicts : verdictReturns(s, resp))
                    => /\ EntryOf(history', id) = conversations'[id]
                       /\ \A other \in Known \ {id} :
                             Ended(other) => EntryOf(history', other) = EntryOf(history, other)]_vars
    /\ [][history' # history
             => \E s \in Slots :
                   pending[s].fn = "interrogatorVerdict" /\ pending'[s] = NoCall]_vars

\* Both conversations are in the history and the end that came first has been
\* repeated: no snapshot carries the first completion time any more.
C19_Witness ==
    /\ Len(history) = 2
    /\ \A i \in 1..2 :
          /\ history[i].completedAt = Some(MaxClock)
          /\ history[i].messages # << >>
    /\ Idle

\* C20: createConversation yields, for every valid config, a conversation that
\* is retrievable by its id, with that config, status idle, an empty transcript,
\* a null verdict, a null completedAt and both agents at turnCount 0 with only
\* their system prompt in memory; it makes no model call, writes no history,
\* and a conversation once created stays retrievable.
C20_CreateYieldsIdleConversation ==
    [][/\ \A id \in ConvIds :
             id \notin DOMAIN conversations /\ id \in DOMAIN conversations'
                => LET conv == conversations'[id]
                   IN  /\ conv.id = id
                       /\ conv.config.turnLimit \in TurnLimits
                       /\ conv.config.humanRole \in HumanRoles
                       /\ conv.status = "idle"
                       /\ conv.messages = << >>
                       /\ conv.verdict = None
                       /\ conv.completedAt = None
                       /\ conv.interrogatorState =
                             [messages |-> <<[role |-> "system", content |-> SystemPromptI]>>,
                              turnCount |-> 0]
                       /\ conv.convincerState =
                             [messages |-> <<[role |-> "system", content |-> SystemPromptC]>>,
                              turnCount |-> 0]
                       /\ pending' = pending
                       /\ history' = history
       /\ \A id \in Known : id \in DOMAIN conversations']_vars

C20_Witness ==
    \E id \in Known :
        /\ script.phase = "created"
        /\ conversations[id].status = "idle"
        /\ conversations[id].config.humanRole = "convincer"
        /\ Idle

\* The calls awaiting the gateway.
InFlight == {s \in Slots : pending[s] # NoCall}

\* C21: start on an idle conversation sets status active; with humanRole =
\* interrogator it returns with the transcript still empty and no model call;
\* otherwise it issues one Interrogator call whose request is the system prompt
\* alone (no incoming message), and when the gateway answers exactly one
\* message, tagged interrogator, is appended.
C21_StartOpensConversation ==
    /\ [][\A id \in Known :
             conversations[id].status = "idle" /\ startConversation(id)
                => /\ conversations'[id] = [conversations[id] EXCEPT !.status = "active"]
                   /\ conversations'[id].messages = << >>
                   /\ IF conversations[id].config.humanRole = "interrogator"
                      THEN pending' = pending
                      ELSE \E s \in Slots :
                              /\ InFlight' = InFlight \cup {s}
                              /\ s \notin InFlight
                              /\ pending'[s].fn = "interrogatorRespond"
                              /\ pending'[s].request =
                                    <<[role |-> "system", content |-> SystemPromptI]>>]_vars
    /\ [][\A s \in Slots :
             LET c == pending[s]
                 after == conversations'[c.ctx.id]
             IN  /\ c.ctx.op = "startConversation"
                 /\ c.ctx.pre[1].status = "idle"
                 /\ \E raw \in Replies(c.fn) : respondReturns(s, raw)
                 => /\ after.status = "active"
                    /\ Len(after.messages) = 1
                    /\ after.messages[1].agent = "interrogator"
                    /\ after.messages[1].content = Last(after.interrogatorState.messages).content
                    /\ after.interrogatorState.turnCount = 1]_vars

C21_Witness ==
    \E id \in Known :
        /\ ScriptAt(0)
        /\ Idle
        /\ conversations[id].status = "active"
        /\ Len(conversations[id].messages) = 1
        /\ conversations[id].messages[1].agent = "interrogator"

\* C22: start requires status idle: start on a conversation that is already
\* active is rejected: it makes no model call, appends no message and leaves
\* the conversation as it is.
C22_StartOnActiveIsRejected ==
    [][\A id \in Known :
          conversations[id].status = "active" /\ Idle /\ startConversation(id)
             => /\ pending' = pending
                /\ conversations' = conversations]_vars

\* C23: advance on a conversation whose status is idle or completed fails with
\* the invalid-state error, makes no model call and leaves the conversation
\* (and the history) unchanged.
C23_AdvanceNeedsActive ==
    /\ [](\A id \in Known :
             conversations[id].status \in {"idle", "completed"}
                => advanceSync(conversations[id], Ctx("advanceConversation", id))
                      = Returned(conversations[id], "NotActive"))
    /\ [][\A id \in Known :
             conversations[id].status \in {"idle", "completed"} /\ advanceConversation(id)
                => UNCHANGED <<conversations, history, pending>>]_vars

C23_Witness ==
    \E id \in Known :
        /\ conversations[id].status = "completed"
        /\ Len(conversations[id].messages) >= 2
        /\ totalTurns(conversations[id]) < conversations[id].config.turnLimit
        /\ ENABLED (Idle /\ advanceConversation(id))

\* C24: start, advance, submitHumanMessage and end called with an id that is
\* not in the registry each fail with the not-found error and change no
\* conversation, no history entry and make no model call.
C24_UnknownIdChangesNothing ==
    [][\A id \in AllIds \ Known :
          /\ startConversation(id) => NotFound("startConversation", id)
          /\ advanceConversation(id) => NotFound("advanceConversation", id)
          /\ (\E content \in HumanContents : submitHumanMessage(id, content))
                => NotFound("submitHumanMessage", id)
          /\ endConversation(id) => NotFound("endConversation", id)
          /\ \/ startConversation(id)
             \/ advanceConversation(id)
             \/ \E content \in HumanContents : submitHumanMessage(id, content)
             \/ endConversation(id)
             => UNCHANGED <<conversations, history, pending>>]_vars

C24_Witness ==
    /\ \E id \in Known : conversations[id].status = "active"
    /\ history # << >>
    /\ Idle
    /\ ENABLED endConversation(UnknownId)
    /\ ENABLED startConversation(UnknownId)

\* C25: with no human role and a gateway that answers every call, a started
\* conversation that keeps being advanced reaches status completed with a
\* verdict after finitely many advance calls, stays completed, and from then
\* on every advance call fails.
C25_AdvancingReachesVerdict ==
    /\ \A id \in ConvIds :
          (id \in Known /\ conversations[id].status = "active")
             ~> /\ id \in Known
                /\ conversations[id].status = "completed"
                /\ conversations[id].verdict # None
    /\ [](\A id \in Known :
             conversations[id].status = "completed"
                => /\ conversations[id].verdict # None
                   /\ advanceSync(conversations[id], Ctx("advanceConversation", id))
                         = Returned(conversations[id], "NotActive"))
    /\ [][\A id \in Known :
             conversations[id].status = "completed"
                => conversations'[id] = conversations[id]]_vars

C25_Witness ==
    \E id \in Known :
        /\ conversations[id].status = "completed"
        /\ conversations[id].verdict # None
        /\ Len(conversations[id].messages) = 2 * conversations[id].config.turnLimit
        /\ script.phase = "off"
        /\ Idle

\* The assistant turns of an agent's memory.
AssistantTurns(state) ==
    {j \in 1..Len(state.messages) : state.messages[j].role = "assistant"}

\* The transcript messages of an agent.
MessagesOf(conv, agent) ==
    {i \in 1..Len(conv.messages) : conv.messages[i].agent = agent}

\* C26: no update is lost when advance calls on the same conversation overlap:
\* every message of the transcript is also recorded as an assistant turn in its
\* author's private memory (each agent's memory holds as many assistant turns
\* as the transcript holds messages of that agent).  Stated for conversations
\* without a human role, where the overlapping calls are advance calls.
C26_NoLostUpdate ==
    \A id \in Known :
        \A agent \in {"interrogator", "convincer"} :
            conversations[id].config.humanRole = "none" =>
            Cardinality(MessagesOf(conversations[id], agent))
               = Cardinality(AssistantTurns(AgentState(conversations[id], agent)))

\* C27: every message a human submits through the boundary reaches the
\* transcript with non-empty trimmed content: empty or whitespace-only content
\* is never appended.
C27_HumanContentNonEmpty ==
    \A id \in Known :
        \A i \in 1..Len(conversations[id].messages) :
            LET m == conversations[id].messages[i]
            IN  m.agent = conversations[id].config.humanRole
                   => m.content # << >> /\ trim(m.content) = m.content

\* C28: for every integer turnLimit requested at the boundary the created
\* conversation's config.turnLimit is that value clamped into [3, 30].
C28_TurnLimitClamped ==
    [][\A t \in RequestedTurnLimits, h \in HumanRoles :
          postConversations(t, h)
             => \E id \in DOMAIN conversations' \ Known :
                   /\ conversations'[id].config.turnLimit
                         = IF t < 3 THEN 3 ELSE IF t > 30 THEN 30 ELSE t
                   /\ conversations'[id].config.turnLimit \in 3..30]_vars

C28_Witness ==
    \E id \in Known :
        /\ conversations[id].config.turnLimit = 30
        /\ conversations[id].status = "idle"
        /\ script.phase = "created"

\* C29: across any number of end invocations on one conversation (a retry
\* after a failed verdict call, a repeated end) the final Convincer message is
\* in the Interrogator's memory as a user turn at most once: the memory never
\* holds two user turns in a row.
C29_LastLineInjectedOnce ==
    \A id \in Known :
        LET mem == conversations[id].interrogatorState.messages
        IN  \A j \in 1..(Len(mem) - 1) :
                ~(mem[j].role = "user" /\ mem[j + 1].role = "user")

\* C30: a conversation never goes from idle directly to completed: end on a
\* conversation that has not been started leaves it idle with a null verdict
\* and no history entry.
C30_IdleNeverCompleted ==
    [][\A id \in Known :
          conversations[id].status = "idle"
             => /\ conversations'[id].status # "completed"
                /\ conversations'[id].verdict = None
                /\ HistoryEntries(id) = {} => history' = history]_vars

\* C31: every AI Interrogator reply to a Convincer message extends the
\* Interrogator's memory by exactly two entries: a user turn holding the
\* Convincer's content (without the analysis instructions) and an assistant
\* turn holding the visible content appended to the transcript; for every
\* Convincer content, the empty string included.
C31_ReplyExtendsMemoryByTwo ==
    [][\A s \in Slots :
          LET c == pending[s]
              before == conversations[c.ctx.id]
              after == conversations'[c.ctx.id]
          IN  /\ c.fn = "interrogatorRespond"
              /\ c.ctx.caller = "advanceConversation"
              /\ \E raw \in Replies(c.fn) : respondReturns(s, raw)
              => after.interrogatorState.messages
                    = before.interrogatorState.messages
                       \o << [role |-> "user", content |-> Last(before.messages).content],
                             [role |-> "assistant", content |-> Last(after.messages).content] >>]_vars

\* The model's reply raw arrives for the Interrogator's call in slot s, made by
\* advance in reply to a Convincer message.
InterrogatorReplyArrives(s, raw) ==
    /\ pending[s].fn = "interrogatorRespond"
    /\ pending[s].ctx.caller = "advanceConversation"
    /\ respondReturns(s, raw)

\* C32 as stated: the Interrogator's respond never fails because of the shape
\* of the text, and whenever the inline analysis cannot be parsed into an
\* analysis object no internalThought / suspicionScore is attached and the
\* message content is the raw model output as it is.
C32_UnparsedAnalysisKeepsRaw ==
    [][\A s \in Slots, raw \in AnalysisReplies :
          InterrogatorReplyArrives(s, raw) /\ parseResponse(raw).analysis = None
             => LET m == Last(conversations'[pending[s].ctx.id].messages)
                IN  /\ m.internalThought = None
                    /\ m.suspicionScore = None
                    /\ m.content = raw]_vars

\* C32 amended: the Interrogator's respond never fails because of the shape of
\* the text (every reply is taken), and whenever the inline analysis cannot be
\* parsed no internalThought / suspicionScore is attached; the content is the
\* raw output when the text has no "[ANALYSIS] {...}" section, and the output
\* cut at the first marker and trimmed when it has one whose body is no JSON.
C32_UnparsedAnalysisAttachesNothing ==
    /\ [](\A s \in Slots :
             pending[s].fn = "interrogatorRespond"
                => \A raw \in AnalysisReplies : ENABLED respondReturns(s, raw))
    /\ [][\A s \in Slots, raw \in AnalysisReplies :
             InterrogatorReplyArrives(s, raw) /\ parseResponse(raw).analysis = None
                => LET m == Last(conversations'[pending[s].ctx.id].messages)
                       cut == {x \in 1..Len(raw) : raw[x] = "[ANALYSIS]"}
                   IN  /\ m.internalThought = None
                       /\ m.suspicionScore = None
                       /\ m.content =
                             IF \E x \in cut, y \in 1..Len(raw), z \in 1..Len(raw) :
                                   /\ x < y /\ y < z
                                   /\ raw[y] = "{" /\ raw[z] = "}"
                                   /\ \A w \in (x + 1)..(y - 1) : raw[w] = "_"
                             THEN trim(SubSeq(raw, 1, Min(cut) - 1))
                             ELSE raw]_vars

\* A reply whose analysis body was no JSON is in the transcript, cut and trimmed.
C32_Witness ==
    \E id \in Known :
        \E i \in 2..Len(conversations[id].messages) :
            /\ conversations[id].messages[i].agent = "interrogator"
            /\ conversations[id].messages[i].content = <<"p">>
            /\ conversations[id].messages[i].suspicionScore = None

\* C33: for every message of the transcript suspicionScore, when present, is a
\* number within 0..100, whatever the model placed in its analysis object.
C33_SuspicionWithinRange ==
    \A id \in Known :
        \A i \in 1..Len(conversations[id].messages) :
            LET score == conversations[id].messages[i].suspicionScore
            IN  score # None => IsNumber(score) /\ score[1] \in 0..100

\* C34: internalThought and suspicionScore appear only on messages the AI
\* Interrogator produced in reply to a Convincer message: Convincer messages,
\* human-submitted messages of either role and the Interrogator's opening
\* message never carry them.
C34_AnalysisOnlyOnInterrogatorReplies ==
    \A id \in Known :
        \A i \in 1..Len(conversations[id].messages) :
            LET m == conversations[id].messages[i]
            IN  m.internalThought # None \/ m.suspicionScore # None
                   => /\ m.agent = "interrogator"
                      /\ conversations[id].config.humanRole # "interrogator"
                      /\ i >= 2
                      /\ conversations[id].messages[i - 1].agent = "convincer"

C34_Witness ==
    \E id \in Known :
        /\ conversations[id].config.humanRole = "convincer"
        /\ \E i \in 1..Len(conversations[id].messages) :
              conversations[id].messages[i].suspicionScore # None

\* C35: an agent's private state changes only on that agent's own turn: the
\* arrival of a Convincer reply leaves interrogatorState unchanged, the arrival
\* of an Interrogator reply leaves convincerState unchanged, and the direct
\* update of submitHumanMessage touches only the human role's state.
C35_StateChangesOnOwnTurn ==
    /\ [][\A s \in Slots :
             LET c == pending[s]
                 before == conversations[c.ctx.id]
                 after == conversations'[c.ctx.id]
             IN  (\E raw \in Replies(c.fn) : respondReturns(s, raw))
                    => /\ c.fn = "convincerRespond"
                          => /\ Last(after.messages).agent = "convincer"
                             /\ after.interrogatorState = before.interrogatorState
                       /\ c.fn = "interrogatorRespond"
                          => /\ Last(after.messages).agent = "interrogator"
                             /\ after.convincerState = before.convincerState]_vars
    /\ [](\A s \in Slots :
             LET c == pending[s]
                 pre == c.ctx.pre[1]
                 counterpart == Other(pre.config.humanRole)
             IN  c.ctx.op = "submitHumanMessage" /\ c.fn # "interrogatorVerdict"
                    => /\ AgentState(conversations[c.ctx.id], counterpart)
                             = AgentState(pre, counterpart)
                       /\ AgentState(conversations[c.ctx.id], pre.config.humanRole)
                             # AgentState(pre, pre.config.humanRole))

C35_Witness ==
    \E s \in Slots :
        /\ pending[s].fn = "convincerRespond"
        /\ pending[s].ctx.op = "advanceConversation"
        /\ Len(conversations[pending[s].ctx.id].interrogatorState.messages) >= 3
        /\ ENABLED (\E raw \in ConvincerReplies : respondReturns(s, raw))

\* C36: in every reachable state verdict is non-null if and only if status is
\* completed, and completedAt is non-null if and only if status is completed.
C36_VerdictIffCompleted ==
    \A id \in Known :
        /\ (conversations[id].verdict # None) <=> (conversations[id].status = "completed")
        /\ (conversations[id].completedAt # None) <=> (conversations[id].status = "completed")

\* C37: after any sequence of non-overlapping operations each agent's
\* turnCount equals the number of transcript messages tagged with that agent,
\* AI-produced or human-submitted.
C37_TurnCountCountsMessages ==
    \A id \in Known :
        Idle =>
           \A agent \in {"interrogator", "convincer"} :
               AgentState(conversations[id], agent).turnCount
                  = Cardinality(MessagesOf(conversations[id], agent))

C37_Witness ==
    \E id \in Known :
        /\ Idle
        /\ conversations[id].config.humanRole = "interrogator"
        /\ conversations[id].interrogatorState.turnCount >= 2
        /\ conversations[id].convincerState.turnCount >= 2

\* C38: a message is never appended to the transcript of a completed
\* conversation, even when the reply of an advance arrives after an overlapping
\* end has completed it; hence the snapshot persisted at completion equals the
\* in-memory transcript.
C38_CompletedTranscriptFrozen ==
    [][\A s \in Slots :
          LET id == pending[s].ctx.id
          IN  /\ pending[s].ctx.op = "advanceConversation"
              /\ pending[s].ctx.caller = "advanceConversation"
              /\ conversations[id].status = "completed"
              /\ \E raw \in OverlapReplies : respondReturns(s, raw)
              => /\ conversations'[id].messages = conversations[id].messages
                 /\ EntryOf(history', id).messages = conversations'[id].messages]_vars

\* The call in slot s is a submitHumanMessage whose human message is the last
\* of the transcript: its turn is still open.
TurnOpen(s) ==
    LET c == pending[s]
        conv == conversations[c.ctx.id]
    IN  /\ c.ctx.op = "submitHumanMessage"
        /\ Len(conv.messages) = Len(c.ctx.pre[1].messages) + 1
        /\ Last(conv.messages).agent = conv.config.humanRole

\* C39: when two submitHumanMessage calls for the same conversation and the
\* same turn overlap, exactly one human message is appended for that turn: the
\* second call fails with the turn-order error and changes nothing.
C39_OverlappingSubmitRejected ==
    /\ [](\A s \in Slots :
             TurnOpen(s) /\ conversations[pending[s].ctx.id].status = "active"
                => \A content \in HumanContents :
                      LET conv == conversations[pending[s].ctx.id]
                      IN  submitSync(conv, content, Ctx("submitHumanMessage", conv.id))
                             = Returned(conv, "NotYourTurn"))
    /\ [][\A s \in Slots, content \in HumanContents :
             TurnOpen(s) /\ submitHumanMessage(pending[s].ctx.id, content)
                => UNCHANGED <<conversations, history, pending>>]_vars

C39_Witness ==
    \E s \in Slots :
        /\ TurnOpen(s)
        /\ conversations[pending[s].ctx.id].status = "active"
        /\ Len(conversations[pending[s].ctx.id].messages) >= 3
        /\ \E content \in HumanContents :
              ENABLED submitHumanMessage(pending[s].ctx.id, content)

\* The chat turns the transcript stands for in the Convincer's memory: the
\* Interrogator's messages as user turns, its own as assistant turns.
MirrorOfConvincer(msgs) ==
    [i \in 1..Len(msgs) |->
        ChatMessage(IF msgs[i].agent = "convincer" THEN "assistant" ELSE "user",
                    msgs[i].content)]

\* C40: whenever the Convincer is an AI (humanRole none or interrogator), after
\* each Convincer turn the Convincer's memory after its system prompt mirrors
\* the transcript exactly: each Interrogator message as a user turn and each
\* Convincer message as an assistant turn, in transcript order.
C40_ConvincerMemoryMirrorsTranscript ==
    \A id \in Known :
        LET conv == conversations[id]
        IN  /\ conv.config.humanRole # "convincer"
            /\ conv.messages # << >>
            /\ Last(conv.messages).agent = "convincer"
            => conv.convincerState.messages
                  = <<ChatMessage("system", SystemPromptC)>> \o MirrorOfConvincer(conv.messages)

=============================================================================
